---- MODULE Spec2Model ----
(***************************************************************************)
(* Model of the DNS trust analyzer of src/whoisChecker.js (lines 113-336): *)
(* the interactive loop startAnalyzer and the six sequential checks of     *)
(* generateTrustReport (SPF, DMARC, NS, CNAME, A with reverse lookups, MX).*)
(* Strings are TLA+ strings; the JavaScript string methods the code uses   *)
(* (trim, toLowerCase, startsWith, includes, split, join) are computed     *)
(* character by character.                                                 *)
(***************************************************************************)
EXTENDS Integers, Sequences, FiniteSets, TLC

VARIABLES pc, domain, logged, totalScore, report, answer,
          aRecords, reverseLookups, issued, reverseCalls, allTransient

vars == <<pc, domain, logged, totalScore, report, answer,
          aRecords, reverseLookups, issued, reverseCalls, allTransient>>

(***************************************************************************)
(* JavaScript string methods                                               *)
(***************************************************************************)
UpperChars == "ABCDEFGHIJKLMNOPQRSTUVWXYZ"

LowerChars == "abcdefghijklmnopqrstuvwxyz"

CharAt(s, i) == SubSeq(s, i, i)

LowerTable ==
    [c \in {CharAt(UpperChars, i) : i \in 1..Len(UpperChars)} |->
        CharAt(LowerChars, CHOOSE i \in 1..Len(UpperChars) : CharAt(UpperChars, i) = c)]

LowerChar(c) == IF c \in DOMAIN LowerTable THEN LowerTable[c] ELSE c

toLowerCase(s) ==
    LET lowered[i \in 0..Len(s)] ==
            IF i = 0 THEN "" ELSE lowered[i - 1] \o LowerChar(CharAt(s, i))
    IN  lowered[Len(s)]

startsWith(s, prefix) ==
    /\ Len(s) >= Len(prefix)
    /\ SubSeq(s, 1, Len(prefix)) = prefix

includes(s, part) ==
    \E i \in 1..(Len(s) - Len(part) + 1) : SubSeq(s, i, i + Len(part) - 1) = part

RECURSIVE trimStart(_)
trimStart(s) ==
    IF Len(s) > 0 /\ CharAt(s, 1) = " " THEN trimStart(SubSeq(s, 2, Len(s))) ELSE s

RECURSIVE trimEnd(_)
trimEnd(s) ==
    IF Len(s) > 0 /\ CharAt(s, Len(s)) = " " THEN trimEnd(SubSeq(s, 1, Len(s) - 1)) ELSE s

trim(s) == trimEnd(trimStart(s))

\* s.split('/')[0]: the text before the first '/', the whole string without one
splitSlashFirst(s) ==
    IF includes(s, "/")
    THEN SubSeq(s, 1, (CHOOSE i \in 1..Len(s) :
                          /\ CharAt(s, i) = "/"
                          /\ \A j \in 1..(i - 1) : CharAt(s, j) # "/") - 1)
    ELSE s

\* record.join(''): the segments of one TXT record concatenated
RECURSIVE join(_)
join(record) ==
    IF Len(record) = 0 THEN "" ELSE Head(record) \o join(Tail(record))

(***************************************************************************)
(* new URL(...) for the input shapes of Inputs: scheme://host[/path].      *)
(* The constructor throws without an http(s) scheme, on an empty host and  *)
(* on a forbidden host code point (a space); hostname is the host in lower *)
(* case.                                                                   *)
(***************************************************************************)
UrlSchemeLen(u) ==
    IF startsWith(toLowerCase(u), "http://") THEN 7
    ELSE IF startsWith(toLowerCase(u), "https://") THEN 8
    ELSE 0

UrlHost(u) == splitSlashFirst(SubSeq(u, UrlSchemeLen(u) + 1, Len(u)))

UrlThrows(u) ==
    \/ UrlSchemeLen(u) = 0
    \/ Len(UrlHost(u)) = 0
    \/ includes(UrlHost(u), " ")

UrlHostname(u) == toLowerCase(UrlHost(u))

potentialUrl(trimmedInput) ==
    IF ~startsWith(trimmedInput, "http") THEN "http://" \o trimmedInput ELSE trimmedInput

\* TRUE when startAnalyzer replaces the input by the URL's hostname
extractsHostname(trimmedInput) ==
    /\ ~UrlThrows(potentialUrl(trimmedInput))
    /\ UrlHostname(potentialUrl(trimmedInput)) # splitSlashFirst(trimmedInput)

domainToAnalyze(trimmedInput) ==
    IF extractsHostname(trimmedInput)
    THEN UrlHostname(potentialUrl(trimmedInput))
    ELSE trimmedInput

\* the exit command: trimmedInput.toLowerCase() === 'exit'
isExit(line) == toLowerCase(trim(line)) = "exit"

\* the emptiness test made on the raw line instead of the trimmed one
isBlank_untrimmed(line) == Len(line) = 0

\* !trimmedInput: nothing but spaces was typed
isBlank(line) == Len(trim(line)) = 0

\* lines the user may type at the prompt
Inputs == {"exit", " EXIT ", "", "  ", "example.com", "http://Example.com/a", "exa mple"}

(***************************************************************************)
(* Resolver outcomes: a promise of node:dns settles with a value or        *)
(* rejects with an error carrying a code.                                  *)
(***************************************************************************)
Ok(v) == [tag |-> "ok", code |-> "", value |-> v]

Err(c) == [tag |-> "err", code |-> c, value |-> <<>>]

NoAnswer == [tag |-> "none", code |-> "", value |-> <<>>]

ErrorCodes == {"ENOTFOUND", "ENODATA", "ETIMEOUT", "ESERVFAIL"}

Errors == {Err(c) : c \in ErrorCodes}

\* largest number of addresses an A answer carries in the model
MaxAddrs == 5

IpOf(i) == "192.0.2." \o CharAt("123456789", i)

TxtRecordSets ==
    { <<>>,
      << <<"v=spf1 -all">> >>,
      << <<"v=notspf">> >>,
      << <<"v=sp", "f1 -all">> >>,
      << <<"site-verification=x">>, <<"v=spf1 ~all">> >>,
      << <<"V=SPF1 -all">> >>,
      << <<" v=spf1 -all">> >>,
      << <<"v=DMARC1; p=none">> >>,
      << <<"v=DMA", "RC1; p=reject">> >>,
      << <<"v=dmarc1; p=none">> >> }

NsRecordSets ==
    { <<>>,
      <<"ns1.example-dns.net">>,
      <<"ns1.example-dns.net", "Ada.NS.CloudFlare.com">>,
      <<"ns-12.awsdns-01.org">> }

CnameRecordSets == { <<>>, <<"target.example.net">> }

ARecordSets == { [i \in 1..n |-> IpOf(i)] : n \in 0..MaxAddrs }

MxRecordSets == { <<>>, <<[exchange |-> "mail.example.com", priority |-> 10]>> }

PtrRecordSets ==
    { <<>>,
      <<"host.example.net">>,
      <<"ec2-1.compute.AmazonAWS.com">>,
      <<"host.example.net", "lb.1e100.google.com">> }

TxtAnswers == {Ok(v) : v \in TxtRecordSets} \cup Errors

NsAnswers == {Ok(v) : v \in NsRecordSets} \cup Errors

CnameAnswers == {Ok(v) : v \in CnameRecordSets} \cup Errors

AAnswers == {Ok(v) : v \in ARecordSets} \cup Errors

MxAnswers == {Ok(v) : v \in MxRecordSets} \cup Errors

ReverseAnswers == {Ok(v) : v \in PtrRecordSets} \cup {Err("ENOTFOUND")}

(***************************************************************************)
(* Policy table and provider lists                                         *)
(***************************************************************************)
\* the table changed without the delta printed in the line: MX exists scores 10
SCORE_CRITERIA_drift ==
    [ SPF   |-> [exists |-> 10, not_exists |-> -10],
      DMARC |-> [exists |-> 10, not_exists |-> -10],
      NS    |-> [reliable |-> 10, unreliable |-> -10],
      CNAME |-> [normal |-> 5, deprecated |-> -15],
      A     |-> [stable |-> 5, unstable |-> -10],
      MX    |-> [exists |-> 10, not_exists |-> -5] ]

SCORE_CRITERIA ==
    [ SPF   |-> [exists |-> 10, not_exists |-> -10],
      DMARC |-> [exists |-> 10, not_exists |-> -10],
      NS    |-> [reliable |-> 10, unreliable |-> -10],
      CNAME |-> [normal |-> 5, deprecated |-> -15],
      A     |-> [stable |-> 5, unstable |-> -10],
      MX    |-> [exists |-> 5, not_exists |-> -5] ]

RELIABLE_NS_PROVIDERS == {"cloudflare", "aws", "azure", "google"}

RELIABLE_IP_PROVIDERS == {"amazonaws", "azure", "google"}

\* aRecords.length >= 5 is the fast-flux heuristic
FastFluxThreshold == 5

CheckKinds == <<"SPF", "DMARC", "NS", "CNAME", "A", "MX">>

\* one line of the report: the check, the delta printed in brackets, the message
Finding(check, shown, outcome) == [check |-> check, shown |-> shown, outcome |-> outcome]

\* what one check does: the amount added to totalScore and the lines pushed
Effect(score, lines) == [score |-> score, lines |-> lines]

(***************************************************************************)
(* The six checks of generateTrustReport, each from the settled value of   *)
(* its query: the try body on a value, the catch body on an error.         *)
(***************************************************************************)
IsAbsence(ans) == ans.code = "ENODATA" \/ ans.code = "ENOTFOUND"

\* only the first segment of a record is looked at (record[0] for record.join(''))
hasSpf_firstSegment(spfRecords) ==
    \E i \in 1..Len(spfRecords) :
        Len(spfRecords[i]) > 0 /\ startsWith(spfRecords[i][1], "v=spf1")

hasSpf(spfRecords) ==
    \E i \in 1..Len(spfRecords) : startsWith(join(spfRecords[i]), "v=spf1")

hasDmarc(dmarcRecords) ==
    \E i \in 1..Len(dmarcRecords) : startsWith(join(dmarcRecords[i]), "v=DMARC1")

isReliable(nsRecords) ==
    \E i \in 1..Len(nsRecords) :
        \E provider \in RELIABLE_NS_PROVIDERS :
            \E lowered \in {toLowerCase(nsRecords[i])} : includes(lowered, provider)

SpfCheck(ans) ==
    IF ans.tag = "ok"
    THEN IF hasSpf(ans.value)
         THEN Effect(SCORE_CRITERIA.SPF.exists, <<Finding("SPF", 10, "exists")>>)
         ELSE Effect(SCORE_CRITERIA.SPF.not_exists, <<Finding("SPF", -10, "not_exists")>>)
    ELSE IF IsAbsence(ans)
         THEN Effect(SCORE_CRITERIA.SPF.not_exists, <<Finding("SPF", -10, "not_exists")>>)
         ELSE Effect(0, <<Finding("SPF", 0, "error")>>)

DmarcCheck(ans) ==
    IF ans.tag = "ok"
    THEN IF hasDmarc(ans.value)
         THEN Effect(SCORE_CRITERIA.DMARC.exists, <<Finding("DMARC", 10, "exists")>>)
         ELSE Effect(SCORE_CRITERIA.DMARC.not_exists, <<Finding("DMARC", -10, "not_exists")>>)
    ELSE IF IsAbsence(ans)
         THEN Effect(SCORE_CRITERIA.DMARC.not_exists, <<Finding("DMARC", -10, "not_exists")>>)
         ELSE Effect(0, <<Finding("DMARC", 0, "error")>>)

NsCheck(ans) ==
    IF ans.tag = "ok"
    THEN IF isReliable(ans.value)
         THEN Effect(SCORE_CRITERIA.NS.reliable, <<Finding("NS", 10, "reliable")>>)
         ELSE Effect(SCORE_CRITERIA.NS.unreliable, <<Finding("NS", -10, "unreliable")>>)
    ELSE Effect(0, <<Finding("NS", 0, "error")>>)

\* ENODATA and ENOTFOUND taken for each other
CnameCheck_swapped(ans) ==
    IF ans.tag = "ok"
    THEN Effect(SCORE_CRITERIA.CNAME.normal, <<Finding("CNAME", 5, "normal")>>)
    ELSE IF ans.code = "ENOTFOUND"
         THEN Effect(0, <<Finding("CNAME", 0, "no_cname")>>)
         ELSE IF ans.code = "ENODATA"
              THEN Effect(SCORE_CRITERIA.CNAME.deprecated, <<Finding("CNAME", -15, "deprecated")>>)
              ELSE Effect(0, <<Finding("CNAME", 0, "error")>>)

CnameCheck(ans) ==
    IF ans.tag = "ok"
    THEN Effect(SCORE_CRITERIA.CNAME.normal, <<Finding("CNAME", 5, "normal")>>)
    ELSE IF ans.code = "ENODATA"
         THEN Effect(0, <<Finding("CNAME", 0, "no_cname")>>)
         ELSE IF ans.code = "ENOTFOUND"
              THEN Effect(SCORE_CRITERIA.CNAME.deprecated, <<Finding("CNAME", -15, "deprecated")>>)
              ELSE Effect(0, <<Finding("CNAME", 0, "error")>>)

\* the threshold compared with > for >=
NeedsReverse_offByOne(ans) ==
    /\ ans.tag = "ok"
    /\ Len(ans.value) > 0
    /\ ~(Len(ans.value) > FastFluxThreshold)

\* the A check needs reverse lookups: 1 to 4 addresses came back
NeedsReverse(ans) ==
    /\ ans.tag = "ok"
    /\ Len(ans.value) > 0
    /\ ~(Len(ans.value) >= FastFluxThreshold)

\* the catch of the A check with its condition inverted
ACheck_invertedCatch(ans) ==
    IF ans.tag = "ok"
    THEN IF Len(ans.value) > 0
         THEN Effect(SCORE_CRITERIA.A.unstable, <<Finding("A", -10, "unstable")>>)
         ELSE Effect(0, <<Finding("A", 0, "none")>>)
    ELSE IF ans.code = "ENODATA" \/ ans.code = "ENOTFOUND"
         THEN Effect(0, <<Finding("A", 0, "error")>>)
         ELSE Effect(0, <<>>)

\* the A check where no reverse lookup is made
ACheck(ans) ==
    IF ans.tag = "ok"
    THEN IF Len(ans.value) > 0
         THEN Effect(SCORE_CRITERIA.A.unstable, <<Finding("A", -10, "unstable")>>)
         ELSE Effect(0, <<Finding("A", 0, "none")>>)
    ELSE IF ans.code # "ENODATA" /\ ans.code # "ENOTFOUND"
         THEN Effect(0, <<Finding("A", 0, "error")>>)
         ELSE Effect(0, <<>>)

\* one element of reverseLookups: not settled yet, the '' of the catch, or the hostnames
Pending == [kind |-> "pending", items |-> <<>>]

EmptyString == [kind |-> "string", items |-> <<>>]

Hostnames(hosts) == [kind |-> "array", items |-> hosts]

\* dns.reverse(ip).catch(() => '')
catchReverse(ans) == IF ans.tag = "ok" THEN Hostnames(ans.value) ELSE EmptyString

\* ptr[0] && ptr[0].toLowerCase().includes(provider)
firstIncludes(ptr, provider) ==
    /\ ptr.kind = "array"
    /\ Len(ptr.items) > 0
    /\ Len(ptr.items[1]) > 0
    /\ \E lowered \in {toLowerCase(ptr.items[1])} : includes(lowered, provider)

isStableIp(lookups) ==
    \E i \in 1..Len(lookups) :
        \E provider \in RELIABLE_IP_PROVIDERS : firstIncludes(lookups[i], provider)

\* the A check once Promise.all has every reverse lookup
AReverseCheck(lookups) ==
    IF isStableIp(lookups)
    THEN Effect(SCORE_CRITERIA.A.stable, <<Finding("A", 5, "stable")>>)
    ELSE Effect(0, <<Finding("A", 0, "unknown")>>)

\* ENODATA and ENOTFOUND reported as an error instead of scored
MxCheck_absenceNeutral(ans) ==
    IF ans.tag = "ok"
    THEN IF Len(ans.value) > 0
         THEN Effect(SCORE_CRITERIA.MX.exists, <<Finding("MX", 5, "exists")>>)
         ELSE Effect(SCORE_CRITERIA.MX.not_exists, <<Finding("MX", -5, "not_exists")>>)
    ELSE Effect(0, <<Finding("MX", 0, "error")>>)

MxCheck(ans) ==
    IF ans.tag = "ok"
    THEN IF Len(ans.value) > 0
         THEN Effect(SCORE_CRITERIA.MX.exists, <<Finding("MX", 5, "exists")>>)
         ELSE Effect(SCORE_CRITERIA.MX.not_exists, <<Finding("MX", -5, "not_exists")>>)
    ELSE IF IsAbsence(ans)
         THEN Effect(SCORE_CRITERIA.MX.not_exists, <<Finding("MX", -5, "not_exists")>>)
         ELSE Effect(0, <<Finding("MX", 0, "error")>>)

\* an error that is neither ENODATA nor ENOTFOUND
IsTransient(ans) == ans.tag = "err" /\ ~IsAbsence(ans)

\* a failed NS lookup's successor skipped: the CNAME check never runs
NextCheck_skipsCname(check) ==
    CASE check = "SPF" -> "DMARC"
      [] check = "DMARC" -> "NS"
      [] check = "NS" -> "A"
      [] check = "CNAME" -> "A"
      [] check = "A" -> "MX"
      [] check = "MX" -> "output"

\* the check whose query follows the given one in generateTrustReport
NextCheck(check) ==
    CASE check = "SPF" -> "DMARC"
      [] check = "DMARC" -> "NS"
      [] check = "NS" -> "CNAME"
      [] check = "CNAME" -> "A"
      [] check = "A" -> "MX"
      [] check = "MX" -> "output"

NoQueries == [k \in {CheckKinds[i] : i \in 1..Len(CheckKinds)} |-> 0]

(***************************************************************************)
(* State machine.  pc names the query generateTrustReport is awaiting      *)
(* ("SPF" ... "MX", "reverse" for the Promise.all of the A check),         *)
(* "output" once the report is printed, "prompt" while rl.question waits   *)
(* for a line, "closed" after rl.close().                                  *)
(***************************************************************************)
Init ==
    /\ pc = "prompt"
    /\ domain = ""
    /\ logged = "banner"
    /\ totalScore = 0
    /\ report = <<>>
    /\ answer = NoAnswer
    /\ aRecords = <<>>
    /\ reverseLookups = <<>>
    /\ issued = NoQueries
    /\ reverseCalls = 0
    /\ allTransient = FALSE

\* logged is what the step just taken wrote to the console besides the prompt
\* the line is "exit": rl.close()
Exit ==
    /\ pc = "prompt"
    /\ \E line \in Inputs :
        isExit(line)
    /\ pc' = "closed"
    /\ logged' = "none"
    /\ UNCHANGED <<domain, totalScore, report, answer, aRecords,
                   reverseLookups, issued, reverseCalls, allTransient>>

\* nothing was typed: warn and ask again
EmptyInput ==
    /\ pc = "prompt"
    /\ \E line \in Inputs :
        /\ ~isExit(line)
        /\ isBlank(line)
    /\ logged' = "warn_empty"
    /\ pc' = "prompt"
    /\ domain' = ""
    /\ totalScore' = 0
    /\ report' = <<>>
    /\ answer' = NoAnswer
    /\ issued' = NoQueries
    /\ reverseCalls' = 0
    /\ allTransient' = FALSE
    /\ UNCHANGED <<aRecords, reverseLookups>>

\* any other line: generateTrustReport starts and issues the SPF query
Analyze ==
    /\ pc = "prompt"
    /\ \E line \in Inputs :
        /\ ~isExit(line)
        /\ ~isBlank(line)
        /\ domain' = domainToAnalyze(trim(line))
        /\ logged' = IF extractsHostname(trim(line)) THEN "extracted" ELSE "none"
    /\ totalScore' = 0
    /\ report' = <<>>
    /\ answer' = NoAnswer
    /\ issued' = [NoQueries EXCEPT !["SPF"] = 1]
    /\ reverseCalls' = 0
    /\ allTransient' = TRUE
    /\ pc' = "SPF"
    /\ UNCHANGED <<aRecords, reverseLookups>>

\* a check is done: add its score, push its lines, go on to the next query
Advance(check, ans, effect) ==
    /\ totalScore' = totalScore + effect.score
    /\ report' = report \o effect.lines
    /\ answer' = ans
    /\ allTransient' = (allTransient /\ IsTransient(ans))
    /\ pc' = NextCheck(check)
    /\ issued' = IF NextCheck(check) = "output" THEN issued
                 ELSE [issued EXCEPT ![NextCheck(check)] = @ + 1]
    /\ logged' = IF NextCheck(check) = "output" THEN "report" ELSE "none"

SettleSpf ==
    /\ pc = "SPF"
    /\ \E ans \in TxtAnswers : Advance("SPF", ans, SpfCheck(ans))
    /\ UNCHANGED <<domain, aRecords, reverseLookups, reverseCalls>>

SettleDmarc ==
    /\ pc = "DMARC"
    /\ \E ans \in TxtAnswers : Advance("DMARC", ans, DmarcCheck(ans))
    /\ UNCHANGED <<domain, aRecords, reverseLookups, reverseCalls>>

SettleNs ==
    /\ pc = "NS"
    /\ \E ans \in NsAnswers : Advance("NS", ans, NsCheck(ans))
    /\ UNCHANGED <<domain, aRecords, reverseLookups, reverseCalls>>

SettleCname ==
    /\ pc = "CNAME"
    /\ \E ans \in CnameAnswers : Advance("CNAME", ans, CnameCheck(ans))
    /\ UNCHANGED <<domain, aRecords, reverseLookups, reverseCalls>>

\* the A query settles: either the check is done, or one reverse lookup per address starts
SettleA ==
    /\ pc = "A"
    /\ \E ans \in AAnswers :
        IF NeedsReverse(ans)
        THEN /\ pc' = "reverse"
             /\ answer' = ans
             /\ aRecords' = ans.value
             /\ reverseLookups' = [i \in 1..Len(ans.value) |-> Pending]
             /\ reverseCalls' = reverseCalls + Len(ans.value)
             /\ allTransient' = FALSE
             /\ logged' = "none"
             /\ UNCHANGED <<totalScore, report, issued>>
        ELSE /\ Advance("A", ans, ACheck(ans))
             /\ UNCHANGED <<aRecords, reverseLookups, reverseCalls>>
    /\ UNCHANGED domain

\* one reverse lookup settles, in any order; a rejection becomes ''
SettleReverse ==
    /\ pc = "reverse"
    /\ \E i \in 1..Len(reverseLookups) :
        /\ reverseLookups[i] = Pending
        /\ \E ans \in ReverseAnswers :
            reverseLookups' = [reverseLookups EXCEPT ![i] = catchReverse(ans)]
    /\ logged' = "none"
    /\ UNCHANGED <<pc, domain, totalScore, report, answer,
                   aRecords, issued, reverseCalls, allTransient>>

\* Promise.all resolves: classify the addresses, go on to MX
JoinReverse ==
    /\ pc = "reverse"
    /\ \A i \in 1..Len(reverseLookups) : reverseLookups[i] # Pending
    /\ Advance("A", answer, AReverseCheck(reverseLookups))
    /\ aRecords' = <<>>
    /\ reverseLookups' = <<>>
    /\ UNCHANGED <<domain, reverseCalls>>

\* the MX query settles and the report is printed
SettleMx ==
    /\ pc = "MX"
    /\ \E ans \in MxAnswers : Advance("MX", ans, MxCheck(ans))
    /\ UNCHANGED <<domain, aRecords, reverseLookups, reverseCalls>>

\* generateTrustReport returned: startAnalyzer asks for the next line
Reprompt ==
    /\ pc = "output"
    /\ pc' = "prompt"
    /\ logged' = "none"
    /\ domain' = ""
    /\ totalScore' = 0
    /\ report' = <<>>
    /\ answer' = NoAnswer
    /\ issued' = NoQueries
    /\ reverseCalls' = 0
    /\ allTransient' = FALSE
    /\ UNCHANGED <<aRecords, reverseLookups>>

Next ==
    \/ Exit
    \/ EmptyInput
    \/ Analyze
    \/ SettleSpf
    \/ SettleDmarc
    \/ SettleNs
    \/ SettleCname
    \/ SettleA
    \/ SettleReverse
    \/ JoinReverse
    \/ SettleMx
    \/ Reprompt

Spec == Init /\ [][Next]_vars

\* the steps of one run of generateTrustReport
Analysis ==
    \/ SettleSpf
    \/ SettleDmarc
    \/ SettleNs
    \/ SettleCname
    \/ SettleA
    \/ SettleReverse
    \/ JoinReverse
    \/ SettleMx

(***************************************************************************)
(* Properties                                                              *)
(***************************************************************************)
Last(seq) == seq[Len(seq)]

Checks(lines) == [i \in 1..Len(lines) |-> lines[i].check]

RECURSIVE SumShown(_)
SumShown(lines) ==
    IF Len(lines) = 0 THEN 0 ELSE Head(lines).shown + SumShown(Tail(lines))

\* the step that ends the named check: its query was awaited, the next one is now
Ends(from, to) == pc = from /\ pc' = to

\* the step appends exactly this line and adds its printed delta to the score
Yields(check, shown, outcome) ==
    /\ report' = Append(report, Finding(check, shown, outcome))
    /\ totalScore' = totalScore + shown

\* C1: every printed report holds exactly one finding per check kind, in the
\* order SPF, DMARC, NS, CNAME, A, MX, whatever the six queries returned
\* (an A query failing with NotFound or NoData included).
C1_OneFindingPerCheck ==
    pc = "output" => Checks(report) = CheckKinds

\* C2: at every point of an analysis, and so in every printed report,
\* totalScore is the sum of the deltas printed in the findings.
C2_ScoreIsSumOfDeltas ==
    totalScore = SumShown(report)

\* the end-to-end scenario: SPF present, DMARC absent, NS reliable, no CNAME,
\* reverse lookups without a provider, MX present: 10 - 10 + 10 + 0 + 0 + 5
C2_Witness ==
    /\ pc = "output"
    /\ totalScore = 15
    /\ report = << Finding("SPF", 10, "exists"), Finding("DMARC", -10, "not_exists"),
                   Finding("NS", 10, "reliable"), Finding("CNAME", 0, "no_cname"),
                   Finding("A", 0, "unknown"), Finding("MX", 5, "exists") >>

\* C3: when every query of an analysis failed with a transient error (a code
\* other than ENODATA and ENOTFOUND), the report has totalScore 0 and exactly
\* six findings, each with delta 0.
C3_AllTransientIsNeutral ==
    (pc = "output" /\ allTransient) =>
        /\ totalScore = 0
        /\ Len(report) = 6
        /\ Checks(report) = CheckKinds
        /\ \A i \in 1..Len(report) : report[i].shown = 0

C3_Witness ==
    /\ pc = "output"
    /\ allTransient
    /\ answer = Err("ETIMEOUT")

\* C4: when the A query returns 5 or more addresses the A check adds the
\* -10 fast-flux finding, and no reverse lookup is made in that analysis.
C4_FastFluxStep ==
    (/\ pc # "MX"
     /\ pc' = "MX"
     /\ answer'.tag = "ok"
     /\ Len(answer'.value) >= 5) =>
        /\ Yields("A", -10, "unstable")
        /\ reverseCalls' = 0

C4_FastFluxState ==
    (/\ pc \in {"MX", "output"}
     /\ \E i \in 1..Len(report) : report[i] = Finding("A", -10, "unstable")) =>
        reverseCalls = 0

C4_FastFluxNoReverse ==
    [][C4_FastFluxStep]_vars /\ []C4_FastFluxState

C4_Witness ==
    /\ pc = "MX"
    /\ answer.tag = "ok"
    /\ Len(answer.value) = 5
    /\ Last(report) = Finding("A", -10, "unstable")

\* C5: the CNAME check maps NotFound to the -15 finding, NoData to a
\* zero-delta note, a successful resolution to +5 and any other error to a
\* zero-delta error line; it yields no other delta.
C5_CnameStep ==
    Ends("CNAME", "A") =>
        /\ answer'.tag = "ok" => Yields("CNAME", 5, "normal")
        /\ answer'.code = "ENOTFOUND" => Yields("CNAME", -15, "deprecated")
        /\ answer'.code = "ENODATA" => Yields("CNAME", 0, "no_cname")
        /\ (answer'.tag = "err" /\ answer'.code \notin {"ENOTFOUND", "ENODATA"}) =>
               Yields("CNAME", 0, "error")
        /\ totalScore' - totalScore \in {-15, 0, 5}

C5_CnameOutcomes ==
    [][C5_CnameStep]_vars

C5_Witness ==
    /\ pc = "A"
    /\ answer = Err("ENOTFOUND")
    /\ Last(report) = Finding("CNAME", -15, "deprecated")

\* the TXT answers of the model in which some record, its segments
\* concatenated, begins with v=spf1
SpfBearing ==
    { << <<"v=spf1 -all">> >>,
      << <<"v=sp", "f1 -all">> >>,
      << <<"site-verification=x">>, <<"v=spf1 ~all">> >> }

\* C6: the SPF check yields +10 exactly when some returned TXT record, its
\* segments concatenated, begins with v=spf1; any other TXT answer, NotFound
\* and NoData yield -10; only a transient failure yields delta 0.
C6_SpfStep ==
    Ends("SPF", "DMARC") =>
        /\ (answer'.tag = "ok" /\ answer'.value \in SpfBearing) =>
               Yields("SPF", 10, "exists")
        /\ (answer'.tag = "ok" /\ answer'.value \notin SpfBearing) =>
               Yields("SPF", -10, "not_exists")
        /\ answer'.code \in {"ENOTFOUND", "ENODATA"} => Yields("SPF", -10, "not_exists")
        /\ (totalScore' = totalScore) <=>
               (answer'.tag = "err" /\ answer'.code \notin {"ENOTFOUND", "ENODATA"})

C6_SpfOutcomes ==
    [][C6_SpfStep]_vars

C6_Witness ==
    /\ pc = "DMARC"
    /\ answer = Ok(<< <<"v=sp", "f1 -all">> >>)
    /\ report = << Finding("SPF", 10, "exists") >>

\* a domain argument that is empty or that new URL cannot parse
InvalidDomain(d) == Len(d) = 0 \/ UrlThrows(potentialUrl(d))

C8_MxStep ==
    Ends("MX", "output") =>
        /\ (answer'.tag = "ok" /\ Len(answer'.value) >= 1) => Yields("MX", 5, "exists")
        /\ (answer'.tag = "ok" /\ Len(answer'.value) = 0) => Yields("MX", -5, "not_exists")
        /\ answer'.code \in {"ENOTFOUND", "ENODATA"} => Yields("MX", -5, "not_exists")
        /\ (totalScore' = totalScore) <=>
               (answer'.tag = "err" /\ answer'.code \notin {"ENOTFOUND", "ENODATA"})

C8_MxOutcomes ==
    [][C8_MxStep]_vars

C8_Witness ==
    /\ pc = "output"
    /\ answer = Err("ENODATA")
    /\ Last(report) = Finding("MX", -5, "not_exists")

\* the hostnames of the model that name amazonaws, azure or google in any case
ProviderHostnames == {"ec2-1.compute.AmazonAWS.com", "lb.1e100.google.com"}

\* C9: with 1 to 4 addresses every address gets a reverse lookup, a failed
\* lookup changes nothing, and the A check is +5 (stable) exactly when some
\* hostname among all those the successful lookups returned names a provider;
\* otherwise it is the zero-delta unknown-provider note.
C9_ReverseStep ==
    Ends("reverse", "MX") =>
        /\ reverseCalls = Len(aRecords)
        /\ Len(reverseLookups) = Len(aRecords)
        /\ IF \E i \in 1..Len(reverseLookups) :
                  \E j \in 1..Len(reverseLookups[i].items) :
                      reverseLookups[i].items[j] \in ProviderHostnames
           THEN Yields("A", 5, "stable")
           ELSE Yields("A", 0, "unknown")

C9_AnyHostnameDecides ==
    [][C9_ReverseStep]_vars

\* C10: in every analysis each of the six queries is issued exactly once,
\* none is skipped or retried whatever the others returned, and the analysis
\* always reaches the printed report.
C10_OnceEach ==
    /\ \A k \in DOMAIN issued : issued[k] <= 1
    /\ pc = "output" => \A k \in DOMAIN issued : issued[k] = 1

C10_Running == pc \in {"SPF", "DMARC", "NS", "CNAME", "A", "reverse", "MX"}

\* what is left of an analysis: the queries still to settle, then the
\* reverse lookups still pending
C10_Left ==
    LET stage == CASE pc = "SPF" -> 8
                   [] pc = "DMARC" -> 7
                   [] pc = "NS" -> 6
                   [] pc = "CNAME" -> 5
                   [] pc = "A" -> 4
                   [] pc = "reverse" -> 3
                   [] pc = "MX" -> 2
                   [] pc = "output" -> 1
                   [] OTHER -> 0
    IN  stage * FastFluxThreshold
          + Cardinality({i \in 1..Len(reverseLookups) : reverseLookups[i] = Pending})

\* a running analysis is never stuck and each of its steps brings it closer
\* to the report: started, it ends at "output" after at most C10_Left steps
C10_Progress ==
    C10_Running =>
        /\ pc' \in {"DMARC", "NS", "CNAME", "A", "reverse", "MX", "output"}
        /\ C10_Left' < C10_Left

C10_AllChecksRun ==
    /\ []C10_OnceEach
    /\ [](C10_Running => ENABLED Analysis)
    /\ [][C10_Progress]_vars

\* every query failed, the A query with NotFound: the report is printed all the same
C10_Witness ==
    /\ pc = "output"
    /\ report = << Finding("SPF", -10, "not_exists"), Finding("DMARC", 0, "error"),
                   Finding("NS", 0, "error"), Finding("CNAME", -15, "deprecated"),
                   Finding("MX", 0, "error") >>
    /\ \A k \in DOMAIN issued : issued[k] = 1

====
